---- MODULE Spec2Model ----
(***************************************************************************)
(* scripts/check_bootstrap.py: the DHT bootstrap-node prober.              *)
(* main() resolves the bootstrap hostnames, appends the static literals,   *)
(* deduplicates, probes every target in turn with probe() and prints a     *)
(* report.  Bytes are integers 0..255, byte strings are sequences of them, *)
(* a target is the tuple <<ip, port>>.                                     *)
(***************************************************************************)
EXTENDS Integers, Sequences, FiniteSets, TLC

VARIABLES
    pc,            \* position of main()
    hostIdx,       \* index of the BOOTSTRAP_HOSTS entry the loop of line 77 is at
    dnsLog,        \* history: what getaddrinfo did for each hostname so far
    addrs,         \* main's addrs
    unique_addrs,  \* main's unique_addrs
    tIdx,          \* index of the target the loop of line 101 is at
    responsive,    \* main's responsive
    out,           \* lines printed so far
    static_ips,    \* the list STATIC_IPS the run is configured with
    probed,        \* history: the calls of probe() in order, each with its target and outcome
    lastProbe,     \* history: how the probe that has just returned went (until the next call)
    ppc,           \* position of probe()
    node_id,       \* probe's node_id
    txid,          \* probe's txid
    payload,       \* probe's payload
    sockOpen,      \* TRUE while the socket s of the with statement is open
    opened,        \* history: sockets created by the current probe
    closed,        \* history: sockets closed by the current probe
    attempt,       \* iterations of the for loop of line 59 begun so far
    sendCalls,     \* history: calls of s.sendto
    sent,          \* history: datagrams s.sendto handed to the network
    recvLog,       \* history: outcome of every s.recvfrom call, in order
    sentLog,       \* history: the datagrams s.sendto handed to the network, in order
    ret            \* what probe() gave its caller: "none", "True", "False", "OSError"

vars == <<pc, hostIdx, dnsLog, addrs, unique_addrs, tIdx, responsive, out,
          static_ips, probed, lastProbe,
          ppc, node_id, txid, payload, sockOpen, opened, closed, attempt,
          sendCalls, sent, recvLog, sentLog, ret>>

mainVars == <<pc, hostIdx, dnsLog, addrs, unique_addrs, tIdx, responsive, out,
              static_ips, probed, lastProbe>>

probeVars == <<ppc, node_id, txid, payload, sockOpen, opened, closed, attempt,
               sendCalls, sent, recvLog, sentLog, ret>>

----------------------------------------------------------------------------
(* Bounds of the model *)

\* hostnames of BOOTSTRAP_HOSTS the model resolves (a prefix of the list)
NumHosts == 2

\* literals of STATIC_IPS the model appends (a prefix of the list)
NumStatic == 2

\* most addresses one getaddrinfo call returns
MaxInfos == 2

\* longest input list of the deduplication taken on its own
MaxAddrs == 4

----------------------------------------------------------------------------
(* Program constants *)

RETRIES == 2

\* range(20) in random_node_id
NodeIdLen == 20

\* s.recvfrom(512)
RecvBufSize == 512

\* the ports of BOOTSTRAP_HOSTS, in source order
BootstrapPorts == <<6881, 6881, 6881, 6881, 25401, 6881, 1337, 6881, 6881, 6881, 6881, 6881>>

AllStaticIPs ==
    << <<"67.215.246.10", 6881>>, <<"82.221.103.244", 6881>>, <<"212.83.137.66", 6881>>,
       <<"212.47.229.2", 6881>>, <<"5.79.83.193", 6881>> >>

Min(a, b) == IF a < b THEN a ELSE b

Take(s, n) == SubSeq(s, 1, Min(n, Len(s)))

BOOTSTRAP_HOSTS == Take(BootstrapPorts, NumHosts)

STATIC_IPS == Take(AllStaticIPs, NumStatic)

Range(s) == {s[i] : i \in 1..Len(s)}

----------------------------------------------------------------------------
(* Message codec *)

\* b"d1:ad2:id20:"
PingHead == <<100, 49, 58, 97, 100, 50, 58, 105, 100, 50, 48, 58>>

\* b"e1:q4:ping1:t"
PingMid == <<101, 49, 58, 113, 52, 58, 112, 105, 110, 103, 49, 58, 116>>

\* b"1:y1:qe"
PingTail == <<49, 58, 121, 49, 58, 113, 101>>

\* build_ping as the comment of line 46 writes it, with the length 2: before txid
build_ping_Documented(tx, nid) == PingHead \o nid \o PingMid \o <<50, 58>> \o tx \o PingTail

build_ping(tx, nid) == PingHead \o nid \o PingMid \o tx \o PingTail

\* struct.pack("!H", n): two bytes, most significant first
PackH(n) == <<(n \div 256) % 256, n % 256>>

\* Contains looking only at the start of the haystack (startswith in place of in)
Contains_Prefix(needle, hay) ==
    Len(hay) >= Len(needle) /\ SubSeq(hay, 1, Len(needle)) = needle

\* needle in haystack, for bytes objects: a contiguous occurrence
Contains(needle, hay) ==
    \E i \in 1..(Len(hay) - Len(needle) + 1) :
        SubSeq(hay, i, i + Len(needle) - 1) = needle

----------------------------------------------------------------------------
(* Address resolver *)

RECURSIVE DedupFrom(_, _, _, _)
DedupFrom(as, i, seen, acc) ==
    IF i > Len(as) THEN acc
    ELSE IF as[i] \in seen THEN DedupFrom(as, i + 1, seen, acc)
    ELSE DedupFrom(as, i + 1, seen \cup {as[i]}, Append(acc, as[i]))

\* Dedup looking only at the element before: duplicates further apart stay
Dedup_Adjacent(as) ==
    LET keep == {i \in 1..Len(as) : i = 1 \/ as[i] # as[i - 1]}
        RECURSIVE Pick(_)
        Pick(i) == IF i > Len(as) THEN <<>>
                   ELSE (IF i \in keep THEN <<as[i]>> ELSE <<>>) \o Pick(i + 1)
    IN Pick(1)

\* lines 91-98: seen = set(); unique_addrs = []; for ip, port in addrs: ...
Dedup(as) == DedupFrom(as, 1, {}, <<>>)

----------------------------------------------------------------------------
(* Inputs the environment supplies *)

\* addresses a resolver answers with: one that is also a static literal, one that is not
IPPool == {"67.215.246.10", "10.0.0.1"}

\* the answers of one successful getaddrinfo call: the addresses in resolver order
DnsAnswers ==
    {a \in UNION {[1..n -> IPPool] : n \in 1..MaxInfos} :
        \A i, j \in 1..Len(a) : i # j => a[i] # a[j]}

\* random.randint(0, 0xFFFF) of line 54, sampled
TxidNums == {1, 12858}

\* random_node_id() of line 53, sampled: 20 equal bytes
NodeIds == {[i \in 1..NodeIdLen |-> b] : b \in {65}}

\* the datagrams a peer may send to the probe's socket
ReplyKinds == {"echo", "pong", "stale", "late"}

Senders == {"target", "other"}

\* b"d1:rd2:id20:"
PongHead == <<100, 49, 58, 114, 100, 50, 58, 105, 100, 50, 48, 58>>

\* b"e1:t2:"
PongMid == <<101, 49, 58, 116, 50, 58>>

\* b"1:y1:re"
PongTail == <<49, 58, 121, 49, 58, 114, 101>>

PeerId == [i \in 1..NodeIdLen |-> 80]

Pong(tx) == PongHead \o PeerId \o PongMid \o tx \o PongTail

\* the payload the peer puts into the datagram
ReplyBytes(kind, tx, req) ==
    CASE kind = "echo" -> req
      [] kind = "pong" -> Pong(tx)
      [] kind = "stale" -> Pong(<<tx[1], (tx[2] + 1) % 256>>)
      [] kind = "late" -> [i \in 1..RecvBufSize |-> 46] \o tx

\* recvfrom with a buffer of 40 bytes
recvfrom_Short(bytes) == Take(bytes, 40)

\* s.recvfrom(512): a datagram longer than the buffer is cut to the buffer's size
recvfrom(bytes) == Take(bytes, RecvBufSize)

NoRecv == [res |-> "none", kind |-> "-", from |-> "-", re |-> 0, data |-> <<>>]

\* no probe has just returned
NoProbe == [target |-> <<>>, ret |-> "none", match |-> FALSE, senders |-> {}]

----------------------------------------------------------------------------
(* probe(addr), lines 52-68 *)

ProbeIdle ==
    /\ ppc = "idle" /\ ret = "none" /\ sockOpen = FALSE
    /\ node_id = <<>> /\ txid = <<>> /\ payload = <<>>
    /\ opened = 0 /\ closed = 0 /\ attempt = 0 /\ sendCalls = 0 /\ sent = 0
    /\ recvLog = <<>> /\ sentLog = <<>>

\* ProbeCall that does not wait for the probe before it: the next target's probe
\* is begun while this one is waiting for its reply
ProbeCall_Overlapping ==
    /\ pc = "probing"
    /\ \/ ppc = "idle" /\ tIdx <= Len(unique_addrs) /\ tIdx' = tIdx
       \/ ppc = "recv" /\ tIdx < Len(unique_addrs) /\ tIdx' = tIdx + 1
    /\ \E n \in NodeIds, x \in TxidNums :
          /\ node_id' = n
          /\ txid' = PackH(x)
          /\ payload' = build_ping(PackH(x), n)
    /\ ppc' = "socket"
    /\ probed' = Append(probed, [target |-> unique_addrs[tIdx'], ret |-> "pending"])
    /\ lastProbe' = NoProbe
    /\ UNCHANGED <<sockOpen, opened, closed, attempt, sendCalls, sent, recvLog, sentLog, ret>>
    /\ UNCHANGED <<pc, hostIdx, dnsLog, addrs, unique_addrs, responsive, out, static_ips>>

\* line 103 calls probe; lines 53-55 draw node_id and txid and build the payload
ProbeCall ==
    /\ pc = "probing" /\ tIdx <= Len(unique_addrs) /\ ppc = "idle"
    /\ \E n \in NodeIds, x \in TxidNums :
          /\ node_id' = n
          /\ txid' = PackH(x)
          /\ payload' = build_ping(PackH(x), n)
    /\ ppc' = "socket"
    /\ probed' = Append(probed, [target |-> unique_addrs[tIdx], ret |-> "pending"])
    /\ lastProbe' = NoProbe
    /\ UNCHANGED <<sockOpen, opened, closed, attempt, sendCalls, sent, recvLog, sentLog, ret>>
    /\ UNCHANGED <<pc, hostIdx, dnsLog, addrs, unique_addrs, tIdx, responsive, out,
                   static_ips>>

\* line 57: socket.socket(AF_INET, SOCK_DGRAM) returns a socket
OpenSocket ==
    /\ ppc = "socket"
    /\ sockOpen' = TRUE /\ opened' = opened + 1
    /\ ppc' = "settimeout"
    /\ UNCHANGED <<node_id, txid, payload, closed, attempt, sendCalls, sent, recvLog, ret>>
    /\ UNCHANGED sentLog
    /\ UNCHANGED mainVars

\* line 57: socket.socket raises OSError (no descriptor left, say); nothing
\* around it catches, so probe ends with the exception
OpenSocketError ==
    /\ ppc = "socket"
    /\ ret' = "OSError" /\ ppc' = "raised"
    /\ UNCHANGED <<node_id, txid, payload, sockOpen, opened, closed, attempt,
                   sendCalls, sent, recvLog>>
    /\ UNCHANGED sentLog
    /\ UNCHANGED mainVars

\* line 58: s.settimeout(TIMEOUT)
SetTimeout ==
    /\ ppc = "settimeout"
    /\ ppc' = "for"
    /\ UNCHANGED <<node_id, txid, payload, sockOpen, opened, closed, attempt,
                   sendCalls, sent, recvLog, ret>>
    /\ UNCHANGED sentLog
    /\ UNCHANGED mainVars

\* line 58: s.settimeout raises OSError; it is inside the with statement and outside
\* the try, so the with statement closes s and the exception leaves probe
SetTimeoutError ==
    /\ ppc = "settimeout"
    /\ sockOpen' = FALSE /\ closed' = closed + 1
    /\ ret' = "OSError" /\ ppc' = "raised"
    /\ UNCHANGED <<node_id, txid, payload, opened, attempt, sendCalls, sent, recvLog>>
    /\ UNCHANGED sentLog
    /\ UNCHANGED mainVars

\* ForNext with the loop running one iteration too many
ForNext_OneMore ==
    /\ ppc = "for" /\ attempt <= RETRIES
    /\ attempt' = attempt + 1
    /\ ppc' = "send"
    /\ UNCHANGED <<node_id, txid, payload, sockOpen, opened, closed, sendCalls, sent,
                   recvLog, ret>>
    /\ UNCHANGED sentLog
    /\ UNCHANGED mainVars

\* ForNext with the transaction id drawn and the request built anew for each attempt
ForNext_FreshTxid ==
    /\ ppc = "for" /\ attempt < RETRIES
    /\ attempt' = attempt + 1
    /\ \E x \in TxidNums :
          /\ txid' = PackH(x)
          /\ payload' = build_ping(PackH(x), node_id)
    /\ ppc' = "send"
    /\ UNCHANGED <<node_id, sockOpen, opened, closed, sendCalls, sent, recvLog, ret>>
    /\ UNCHANGED sentLog
    /\ UNCHANGED mainVars

\* line 59: for _ in range(RETRIES), one more iteration
ForNext ==
    /\ ppc = "for" /\ attempt < RETRIES
    /\ attempt' = attempt + 1
    /\ ppc' = "send"
    /\ UNCHANGED <<node_id, txid, payload, sockOpen, opened, closed, sendCalls, sent,
                   recvLog, ret>>
    /\ UNCHANGED sentLog
    /\ UNCHANGED mainVars

\* ForExhausted with the socket left open
ForExhausted_NoClose ==
    /\ ppc = "for" /\ attempt >= RETRIES
    /\ ret' = "False" /\ ppc' = "returned"
    /\ UNCHANGED <<node_id, txid, payload, sockOpen, opened, closed, attempt, sendCalls,
                   sent, recvLog>>
    /\ UNCHANGED sentLog
    /\ UNCHANGED mainVars

\* lines 59, 57, 68: the range is exhausted, the with statement closes s, return False
ForExhausted ==
    /\ ppc = "for" /\ attempt >= RETRIES
    /\ sockOpen' = FALSE /\ closed' = closed + 1
    /\ ret' = "False" /\ ppc' = "returned"
    /\ UNCHANGED <<node_id, txid, payload, opened, attempt, sendCalls, sent, recvLog>>
    /\ UNCHANGED sentLog
    /\ UNCHANGED mainVars

\* line 61: s.sendto(payload, addr) hands the datagram to the network
SendTo ==
    /\ ppc = "send"
    /\ sendCalls' = sendCalls + 1 /\ sent' = sent + 1
    /\ sentLog' = Append(sentLog, [txid |-> txid, payload |-> payload])
    /\ ppc' = "recv"
    /\ UNCHANGED <<node_id, txid, payload, sockOpen, opened, closed, attempt, recvLog, ret>>
    /\ UNCHANGED mainVars

\* lines 61, 66-67: s.sendto raises OSError: continue
SendToError ==
    /\ ppc = "send"
    /\ sendCalls' = sendCalls + 1
    /\ ppc' = "for"
    /\ UNCHANGED <<node_id, txid, payload, sockOpen, opened, closed, attempt, sent,
                   recvLog, ret>>
    /\ UNCHANGED sentLog
    /\ UNCHANGED mainVars

\* RecvRaises with break in place of continue
RecvRaises_Break ==
    /\ ppc = "recv"
    /\ \E r \in {"timeout", "error"} :
          recvLog' = Append(recvLog, [NoRecv EXCEPT !.res = r])
    /\ attempt' = RETRIES
    /\ ppc' = "for"
    /\ UNCHANGED <<node_id, txid, payload, sockOpen, opened, closed, sendCalls, sent, ret>>
    /\ UNCHANGED sentLog
    /\ UNCHANGED mainVars

\* lines 62, 66-67: s.recvfrom raises socket.timeout, or another OSError: continue
RecvRaises ==
    /\ ppc = "recv"
    /\ \E r \in {"timeout", "error"} :
          recvLog' = Append(recvLog, [NoRecv EXCEPT !.res = r])
    /\ ppc' = "for"
    /\ UNCHANGED <<node_id, txid, payload, sockOpen, opened, closed, attempt, sendCalls,
                   sent, ret>>
    /\ UNCHANGED sentLog
    /\ UNCHANGED mainVars

\* what a datagram from sender f may answer: the target answers one of the datagrams
\* sent to it so far, another sender's datagram (0) answers none of them
AnswersTo(f) == IF f = "target" THEN 1..sent ELSE {0}

\* what a sender's datagram may be: anything from the target; from another sender
\* a pong, which carries the transaction id the probe looks for
KindsFrom(f) == IF f = "target" THEN ReplyKinds ELSE {"pong"}

\* the payload of a datagram of kind k that answers the r-th datagram sent: it is
\* made from that datagram and its transaction id; one that answers none (r = 0)
\* happens to carry what the probe looks for
Datagram(k, r) ==
    IF r = 0 THEN ReplyBytes(k, txid, payload)
    ELSE ReplyBytes(k, sentLog[r].txid, sentLog[r].payload)

\* RecvData without the return of line 65: a matching datagram is passed over
RecvData_NoReturn ==
    /\ ppc = "recv"
    /\ \E k \in ReplyKinds, f \in Senders, r \in 0..sent :
          LET data == recvfrom(Datagram(k, r)) IN
          /\ r \in AnswersTo(f) /\ k \in KindsFrom(f)
          /\ recvLog' = Append(recvLog, [res |-> "data", kind |-> k, from |-> f, re |-> r,
                                         data |-> data])
    /\ ppc' = "for"
    /\ UNCHANGED <<node_id, txid, payload, sockOpen, opened, closed, attempt, sendCalls,
                   sent, ret>>
    /\ UNCHANGED sentLog
    /\ UNCHANGED mainVars

\* RecvData without the test of line 64: any datagram counts as the reply
RecvData_AnyDatagram ==
    /\ ppc = "recv"
    /\ \E k \in ReplyKinds, f \in Senders, r \in 0..sent :
          LET data == recvfrom(Datagram(k, r)) IN
          /\ r \in AnswersTo(f) /\ k \in KindsFrom(f)
          /\ recvLog' = Append(recvLog, [res |-> "data", kind |-> k, from |-> f, re |-> r,
                                         data |-> data])
    /\ sockOpen' = FALSE /\ closed' = closed + 1
    /\ ret' = "True" /\ ppc' = "returned"
    /\ UNCHANGED <<node_id, txid, payload, opened, attempt, sendCalls, sent>>
    /\ UNCHANGED sentLog
    /\ UNCHANGED mainVars

\* RecvData that waits for another datagram after one that does not match, in the
\* same attempt and without sending again
RecvData_KeepsListening ==
    /\ ppc = "recv"
    /\ \E k \in ReplyKinds, f \in Senders, r \in 0..sent :
          LET data == recvfrom(Datagram(k, r)) IN
          /\ r \in AnswersTo(f) /\ k \in KindsFrom(f)
          /\ recvLog' = Append(recvLog, [res |-> "data", kind |-> k, from |-> f, re |-> r,
                                         data |-> data])
          /\ IF Contains(txid, data)
             THEN /\ sockOpen' = FALSE /\ closed' = closed + 1
                  /\ ret' = "True" /\ ppc' = "returned"
             ELSE /\ ppc' = "recv"
                  /\ UNCHANGED <<sockOpen, closed, ret>>
    /\ UNCHANGED <<node_id, txid, payload, opened, attempt, sendCalls, sent>>
    /\ UNCHANGED sentLog
    /\ UNCHANGED mainVars

\* lines 62-65: s.recvfrom returns a datagram; if txid in data: the with statement
\* closes s and probe returns True, otherwise the loop goes on
RecvData ==
    /\ ppc = "recv"
    /\ \E k \in ReplyKinds, f \in Senders, r \in 0..sent :
          LET data == recvfrom(Datagram(k, r)) IN
          /\ r \in AnswersTo(f) /\ k \in KindsFrom(f)
          /\ recvLog' = Append(recvLog, [res |-> "data", kind |-> k, from |-> f, re |-> r,
                                         data |-> data])
          /\ IF Contains(txid, data)
             THEN /\ sockOpen' = FALSE /\ closed' = closed + 1
                  /\ ret' = "True" /\ ppc' = "returned"
             ELSE /\ ppc' = "for"
                  /\ UNCHANGED <<sockOpen, closed, ret>>
    /\ UNCHANGED <<node_id, txid, payload, opened, attempt, sendCalls, sent>>
    /\ UNCHANGED sentLog
    /\ UNCHANGED mainVars

----------------------------------------------------------------------------
(* main(), lines 71-115 *)

Targets(ips, port) == [k \in 1..Len(ips) |-> <<ips[k], port>>]

\* lines 77-82: getaddrinfo answers; one (ip, port) is appended per info, in order
ResolveHost ==
    /\ pc = "resolve" /\ hostIdx <= Len(BOOTSTRAP_HOSTS)
    /\ \E ips \in DnsAnswers :
          /\ addrs' = addrs \o Targets(ips, BOOTSTRAP_HOSTS[hostIdx])
          /\ dnsLog' = Append(dnsLog, [ok |-> TRUE, ips |-> ips])
    /\ hostIdx' = hostIdx + 1
    /\ UNCHANGED <<pc, unique_addrs, tIdx, responsive, out>>
    /\ UNCHANGED <<static_ips, probed, lastProbe>>
    /\ UNCHANGED probeVars

\* ResolveFails with break in place of continue: the hostnames after it are dropped
ResolveFails_Break ==
    /\ pc = "resolve" /\ hostIdx <= Len(BOOTSTRAP_HOSTS)
    /\ dnsLog' = Append(dnsLog, [ok |-> FALSE, ips |-> <<>>])
    /\ hostIdx' = Len(BOOTSTRAP_HOSTS) + 1
    /\ UNCHANGED <<pc, addrs, unique_addrs, tIdx, responsive, out>>
    /\ UNCHANGED <<static_ips, probed, lastProbe>>
    /\ UNCHANGED probeVars

\* lines 79, 83-85: getaddrinfo raises socket.gaierror: continue
ResolveFails ==
    /\ pc = "resolve" /\ hostIdx <= Len(BOOTSTRAP_HOSTS)
    /\ dnsLog' = Append(dnsLog, [ok |-> FALSE, ips |-> <<>>])
    /\ hostIdx' = hostIdx + 1
    /\ UNCHANGED <<pc, addrs, unique_addrs, tIdx, responsive, out>>
    /\ UNCHANGED <<static_ips, probed, lastProbe>>
    /\ UNCHANGED probeVars

\* line 88: addrs.extend(STATIC_IPS)
ExtendStatic ==
    /\ pc = "resolve" /\ hostIdx > Len(BOOTSTRAP_HOSTS)
    /\ addrs' = addrs \o static_ips
    /\ pc' = "dedup"
    /\ UNCHANGED <<hostIdx, dnsLog, unique_addrs, tIdx, responsive, out>>
    /\ UNCHANGED <<static_ips, probed, lastProbe>>
    /\ UNCHANGED probeVars

\* lines 90-98
Deduplicate ==
    /\ pc = "dedup"
    /\ unique_addrs' = Dedup(addrs)
    /\ pc' = "banner"
    /\ UNCHANGED <<hostIdx, dnsLog, addrs, tIdx, responsive, out>>
    /\ UNCHANGED <<static_ips, probed, lastProbe>>
    /\ UNCHANGED probeVars

\* PrintBanner of a main that takes an empty target list for an error
PrintBanner_RejectsEmpty ==
    /\ pc = "banner"
    /\ out' = Append(out, [line |-> "banner", target |-> <<>>, status |-> "-"])
    /\ tIdx' = 1
    /\ pc' = (IF unique_addrs = <<>> THEN "crashed" ELSE "probing")
    /\ UNCHANGED <<hostIdx, dnsLog, addrs, unique_addrs, responsive>>
    /\ UNCHANGED <<static_ips, probed, lastProbe>>
    /\ UNCHANGED probeVars

\* line 100
PrintBanner ==
    /\ pc = "banner"
    /\ out' = Append(out, [line |-> "banner", target |-> <<>>, status |-> "-"])
    /\ tIdx' = 1
    /\ pc' = "probing"
    /\ UNCHANGED <<hostIdx, dnsLog, addrs, unique_addrs, responsive>>
    /\ UNCHANGED <<static_ips, probed, lastProbe>>
    /\ UNCHANGED probeVars

\* ProbeReturn without the test of line 107: every probed target is remembered
ProbeReturn_ListsAll ==
    /\ pc = "probing" /\ ppc = "returned"
    /\ LET ok == (ret = "True")
           status == IF ok THEN "OK" ELSE "NO-REPLY"
       IN /\ out' = Append(out, [line |-> "status", target |-> unique_addrs[tIdx],
                                 status |-> status])
          /\ responsive' = Append(responsive, unique_addrs[tIdx])
    /\ tIdx' = tIdx + 1
    /\ ppc' = "idle" /\ ret' = "none"
    /\ node_id' = <<>> /\ txid' = <<>> /\ payload' = <<>>
    /\ opened' = 0 /\ closed' = 0 /\ attempt' = 0 /\ sendCalls' = 0 /\ sent' = 0
    /\ recvLog' = <<>> /\ sentLog' = <<>>
    /\ lastProbe' = [target |-> unique_addrs[tIdx], ret |-> ret,
                     match |-> \E i \in 1..Len(recvLog) :
                                 recvLog[i].res = "data" /\ Contains(txid, recvLog[i].data),
                     senders |-> {recvLog[i].from : i \in {j \in 1..Len(recvLog) :
                                                              recvLog[j].res = "data"}}]
    /\ probed' = [probed EXCEPT ![Len(probed)].ret = ret]
    /\ UNCHANGED <<pc, hostIdx, dnsLog, addrs, unique_addrs, sockOpen, static_ips>>

\* lines 103-108: probe returned ok; print the status line, remember a responsive target
ProbeReturn ==
    /\ pc = "probing" /\ ppc = "returned"
    /\ LET ok == (ret = "True")
           status == IF ok THEN "OK" ELSE "NO-REPLY"
       IN /\ out' = Append(out, [line |-> "status", target |-> unique_addrs[tIdx],
                                 status |-> status])
          /\ responsive' = IF ok THEN Append(responsive, unique_addrs[tIdx])
                                 ELSE responsive
    /\ tIdx' = tIdx + 1
    /\ ppc' = "idle" /\ ret' = "none"
    /\ node_id' = <<>> /\ txid' = <<>> /\ payload' = <<>>
    /\ opened' = 0 /\ closed' = 0 /\ attempt' = 0 /\ sendCalls' = 0 /\ sent' = 0
    /\ recvLog' = <<>> /\ sentLog' = <<>>
    /\ lastProbe' = [target |-> unique_addrs[tIdx], ret |-> ret,
                     match |-> \E i \in 1..Len(recvLog) :
                                 recvLog[i].res = "data" /\ Contains(txid, recvLog[i].data),
                     senders |-> {recvLog[i].from : i \in {j \in 1..Len(recvLog) :
                                                              recvLog[j].res = "data"}}]
    /\ probed' = [probed EXCEPT ![Len(probed)].ret = ret]
    /\ UNCHANGED <<pc, hostIdx, dnsLog, addrs, unique_addrs, sockOpen, static_ips>>

\* line 103: probe raised; main has no handler, the exception ends the run
ProbeRaises ==
    /\ pc = "probing" /\ ppc = "raised"
    /\ pc' = "crashed"
    /\ probed' = [probed EXCEPT ![Len(probed)].ret = ret]
    /\ UNCHANGED <<hostIdx, dnsLog, addrs, unique_addrs, tIdx, responsive, out>>
    /\ UNCHANGED <<static_ips, lastProbe>>
    /\ UNCHANGED probeVars

NodeLines(rs) == [k \in 1..Len(rs) |-> [line |-> "node", target |-> rs[k], status |-> "-"]]

\* Report that prints (none) whether or not a node responded
Report_NoneAlways ==
    /\ pc = "probing" /\ tIdx > Len(unique_addrs) /\ ppc = "idle"
    /\ out' = out \o <<[line |-> "header", target |-> <<>>, status |-> "-"]>>
                  \o NodeLines(responsive)
                  \o <<[line |-> "none", target |-> <<>>, status |-> "-"]>>
    /\ pc' = "done"
    /\ UNCHANGED <<hostIdx, dnsLog, addrs, unique_addrs, tIdx, responsive>>
    /\ UNCHANGED <<static_ips, probed, lastProbe>>
    /\ UNCHANGED probeVars

\* lines 110-115: the summary
Report ==
    /\ pc = "probing" /\ tIdx > Len(unique_addrs) /\ ppc = "idle"
    /\ out' = out \o <<[line |-> "header", target |-> <<>>, status |-> "-"]>>
                  \o NodeLines(responsive)
                  \o (IF responsive = <<>>
                      THEN <<[line |-> "none", target |-> <<>>, status |-> "-"]>>
                      ELSE <<>>)
    /\ pc' = "done"
    /\ UNCHANGED <<hostIdx, dnsLog, addrs, unique_addrs, tIdx, responsive>>
    /\ UNCHANGED <<static_ips, probed, lastProbe>>
    /\ UNCHANGED probeVars

----------------------------------------------------------------------------
(* The program *)

Init ==
    /\ pc = "resolve" /\ hostIdx = 1 /\ dnsLog = <<>>
    /\ addrs = <<>> /\ unique_addrs = <<>> /\ tIdx = 0
    /\ responsive = <<>> /\ out = <<>>
    /\ static_ips = STATIC_IPS /\ probed = <<>> /\ lastProbe = NoProbe
    /\ ProbeIdle

Next ==
    \/ ResolveHost \/ ResolveFails \/ ExtendStatic \/ Deduplicate \/ PrintBanner
    \/ ProbeCall \/ OpenSocket \/ OpenSocketError \/ SetTimeout \/ SetTimeoutError
    \/ ForNext \/ ForExhausted \/ SendTo \/ SendToError \/ RecvRaises \/ RecvData
    \/ ProbeReturn \/ ProbeRaises \/ Report

Spec == Init /\ [][Next]_vars

----------------------------------------------------------------------------
(* probe() on its own terms: what holds of one call *)

Concluded == ppc \in {"returned", "raised"}

\* the receive of attempt i gave a datagram in which txid occurs
Matched(i) == recvLog[i].res = "data" /\ Contains(txid, recvLog[i].data)

\* C1: a probe all of whose receives timed out has called sendto exactly RETRIES
\* times when it returns, it returns False, and when every sendto went out it has
\* sent RETRIES datagrams and waited RETRIES times.
C1_SilentTargetExhaustsRetries ==
    (ppc = "returned" /\ \A i \in 1..Len(recvLog) : recvLog[i].res = "timeout")
        => /\ sendCalls = RETRIES
           /\ ret = "False"
           /\ (sent = sendCalls => sent = RETRIES /\ Len(recvLog) = RETRIES)

C1_Witness ==
    /\ ppc = "returned" /\ ret = "False"
    /\ sent = RETRIES /\ Len(recvLog) = RETRIES
    /\ \A i \in 1..Len(recvLog) : recvLog[i].res = "timeout"

\* C2: once the first receive of a probe has returned a datagram containing txid,
\* the probe has returned True with one datagram sent and one receive made, and
\* nothing more is sent or received.
C2_FirstReplySucceedsAtOnce ==
    (Len(recvLog) >= 1 /\ Matched(1))
        => /\ ppc = "returned" /\ ret = "True"
           /\ sent = 1 /\ Len(recvLog) = 1 /\ sockOpen = FALSE

C2_Witness ==
    /\ ppc = "returned" /\ ret = "True" /\ sendCalls = 1 /\ sent = 1
    /\ Len(recvLog) = 1 /\ Matched(1) /\ recvLog[1].kind = "pong"

\* C3: at every moment of a probe at most RETRIES datagrams have been sent (and
\* sendto called at most RETRIES times), and there were never more receive
\* attempts than datagrams sent.
C3_SendsBounded ==
    /\ sent <= sendCalls /\ sendCalls <= attempt /\ attempt <= RETRIES
    /\ Len(recvLog) <= sent

C3_Witness ==
    /\ sent = RETRIES /\ Len(recvLog) = RETRIES
    /\ recvLog[1].res = "error" /\ recvLog[2].res = "data" /\ ~Matched(2)

\* C4: when probe is over, it has returned True exactly if one of its receives
\* gave a datagram containing txid; a probe that returns gives True or False, and
\* it made at most RETRIES receives.
C4_TrueIffMatch ==
    Concluded =>
        /\ (ret = "True") <=> (\E i \in 1..Len(recvLog) : Matched(i))
        /\ ppc = "returned" => ret \in {"True", "False"}
        /\ Len(recvLog) <= RETRIES

C4_Witness ==
    /\ ppc = "returned" /\ ret = "True" /\ Len(recvLog) = 2
    /\ recvLog[1].res = "data" /\ ~Matched(1) /\ Matched(2)

\* C5: in every state in which the probe is over, whether it returned True,
\* returned False or ended with an exception, its socket is closed: every socket
\* it opened has been closed.
C5_SocketClosedWhenOver ==
    Concluded => (sockOpen = FALSE /\ closed = opened)

C5_Witness ==
    ppc = "raised" /\ opened = 1 /\ closed = 1 /\ sockOpen = FALSE

\* C6: no socket error leaves probe: probe never ends with an exception, and the
\* run is never ended by one.
C6_NoErrorPropagates ==
    ppc # "raised" /\ ret # "OSError" /\ pc # "crashed"

----------------------------------------------------------------------------
(* The deduplication of lines 90-98 on its own, over every list of targets of *)
(* at most MaxAddrs entries                                                   *)

\* targets to build lists from: one address under two ports, and another address
DedupPool == {<<"10.0.0.1", 6881>>, <<"10.0.0.1", 25401>>, <<"67.215.246.10", 6881>>}

InitDedup ==
    /\ pc = "dedup" /\ hostIdx = Len(BOOTSTRAP_HOSTS) + 1 /\ dnsLog = <<>>
    /\ addrs \in UNION {[1..n -> DedupPool] : n \in 0..MaxAddrs}
    /\ unique_addrs = <<>> /\ tIdx = 0
    /\ responsive = <<>> /\ out = <<>>
    /\ static_ips = STATIC_IPS /\ probed = <<>> /\ lastProbe = NoProbe
    /\ ProbeIdle

NextDedup == Deduplicate

SpecDedup == InitDedup /\ [][NextDedup]_vars

NoDuplicates(s) == \A i, j \in 1..Len(s) : i # j => s[i] # s[j]

FirstIndex(s, x) == CHOOSE i \in 1..Len(s) : s[i] = x /\ \A j \in 1..(i - 1) : s[j] # x

\* the rearrangements of s
Rearrangements(s) ==
    {[i \in 1..Len(s) |-> s[f[i]]] :
        f \in {g \in [1..Len(s) -> 1..Len(s)] : \A i, j \in 1..Len(s) : i # j => g[i] # g[j]}}

\* C7: the deduplicated sequence holds every distinct pair of the input exactly
\* once, in the order of first occurrence in the input; deduplicating it again, or
\* deduplicating the input followed by itself, gives the same sequence; and every
\* rearrangement of the input deduplicates to as many entries as the input has
\* distinct pairs.
C7_DedupFirstSeenOrder ==
    pc = "banner" =>
        /\ NoDuplicates(unique_addrs)
        /\ Range(unique_addrs) = Range(addrs)
        /\ \A i, j \in 1..Len(unique_addrs) :
              i < j => FirstIndex(addrs, unique_addrs[i]) < FirstIndex(addrs, unique_addrs[j])
        /\ Dedup(unique_addrs) = unique_addrs
        /\ Dedup(addrs \o addrs) = unique_addrs
        /\ \A q \in Rearrangements(addrs) : Len(Dedup(q)) = Cardinality(Range(addrs))

C7_Witness ==
    /\ pc = "banner"
    /\ addrs = << <<"10.0.0.1", 6881>>, <<"10.0.0.1", 25401>>, <<"10.0.0.1", 6881>>,
                  <<"67.215.246.10", 6881>> >>
    /\ unique_addrs = << <<"10.0.0.1", 6881>>, <<"10.0.0.1", 25401>>,
                         <<"67.215.246.10", 6881>> >>

----------------------------------------------------------------------------
(* The resolver stage of main, lines 74-88 *)

\* what the hostnames 1..n contribute, by the log of what getaddrinfo did
RECURSIVE ResolvedUpTo(_, _)
ResolvedUpTo(log, n) ==
    IF n = 0 THEN <<>>
    ELSE ResolvedUpTo(log, n - 1)
            \o (IF log[n].ok THEN Targets(log[n].ips, BOOTSTRAP_HOSTS[n]) ELSE <<>>)

\* C8: a hostname whose resolution failed adds nothing and the loop goes on to
\* the next hostname: once the resolver stage is over every hostname has been
\* tried, and addrs is what the resolved hostnames returned, one target per
\* address in resolver order, followed by all static literals; all of these are
\* in the probe sequence.
C8_FailedHostSkipped ==
    /\ Len(dnsLog) = (IF pc = "resolve" THEN hostIdx - 1 ELSE Len(BOOTSTRAP_HOSTS))
    /\ addrs = ResolvedUpTo(dnsLog, Len(dnsLog))
                  \o (IF pc = "resolve" THEN <<>> ELSE STATIC_IPS)
    /\ pc \notin {"resolve", "dedup"} => Range(unique_addrs) = Range(addrs)

C8_Witness ==
    /\ pc = "banner"
    /\ dnsLog[1].ok = FALSE
    /\ dnsLog[2].ok /\ dnsLog[2].ips = <<"10.0.0.1", "67.215.246.10">>
    /\ unique_addrs = << <<"10.0.0.1", 6881>> >> \o STATIC_IPS

----------------------------------------------------------------------------
(* build_ping on its own, over sampled transaction ids and node ids *)

\* transaction ids: 0, 1, "2:", "le", "0:", "de", "AA", "::", 0xFFFF
CodecTxidNums == {0, 1, 12858, 27749, 12346, 25701, 16705, 14906, 65535}

\* node ids: 20 equal bytes (0, "1", ":", "A", "e", 255) and two with all bytes different
CodecNodeIds ==
    {[i \in 1..NodeIdLen |-> b] : b \in {0, 49, 58, 65, 101, 255}}
        \cup {[i \in 1..NodeIdLen |-> i], [i \in 1..NodeIdLen |-> (i * 13) % 256]}

\* line 55: payload = build_ping(txid, node_id)
BuildPing ==
    /\ ppc = "build"
    /\ payload' = build_ping(txid, node_id)
    /\ ppc' = "built"
    /\ UNCHANGED <<node_id, txid, sockOpen, opened, closed, attempt, sendCalls, sent,
                   recvLog, ret>>
    /\ UNCHANGED sentLog
    /\ UNCHANGED mainVars

InitCodec ==
    /\ pc = "unit" /\ hostIdx = 1 /\ dnsLog = <<>>
    /\ addrs = <<>> /\ unique_addrs = <<>> /\ tIdx = 0
    /\ responsive = <<>> /\ out = <<>>
    /\ static_ips = STATIC_IPS /\ probed = <<>> /\ lastProbe = NoProbe
    /\ ppc = "build" /\ ret = "none" /\ sockOpen = FALSE
    /\ node_id \in CodecNodeIds
    /\ txid \in {PackH(x) : x \in CodecTxidNums}
    /\ payload = <<>>
    /\ opened = 0 /\ closed = 0 /\ attempt = 0 /\ sendCalls = 0 /\ sent = 0
    /\ recvLog = <<>> /\ sentLog = <<>>

\* lines 62-65 for a responder that sends the request back as it is: data is the
\* payload, and the outcome is that of txid in data
EchoCheck ==
    /\ ppc = "built"
    /\ ret' = (IF Contains(txid, recvfrom(payload)) THEN "True" ELSE "False")
    /\ ppc' = "checked"
    /\ UNCHANGED <<node_id, txid, payload, sockOpen, opened, closed, attempt, sendCalls,
                   sent, recvLog>>
    /\ UNCHANGED sentLog
    /\ UNCHANGED mainVars

NextCodec == BuildPing \/ EchoCheck

SpecCodec == InitCodec /\ [][NextCodec]_vars

\* the layout the claim writes: 'd1:ad2:id20:' node_id 'e1:q4:ping1:t' txid '1:y1:qe'
PingLayout ==
    /\ Len(payload) >= 54
    /\ SubSeq(payload, 1, 12) = <<100, 49, 58, 97, 100, 50, 58, 105, 100, 50, 48, 58>>
    /\ SubSeq(payload, 13, 32) = node_id
    /\ SubSeq(payload, 33, 45) = <<101, 49, 58, 113, 52, 58, 112, 105, 110, 103, 49, 58, 116>>
    /\ SubSeq(payload, 46, 47) = txid
    /\ SubSeq(payload, 48, 54) = <<49, 58, 121, 49, 58, 113, 101>>

----------------------------------------------------------------------------
(* A bencode decoder: byte strings <length>:<bytes>, integers i<digits>e,  *)
(* lists l...e and dictionaries d(<key><value>)*e                          *)

IsDigit(c) == c \in 48..57

RECURSIVE DigitsEnd(_, _)
DigitsEnd(b, p) == IF p <= Len(b) /\ IsDigit(b[p]) THEN DigitsEnd(b, p + 1) ELSE p

\* the number written in decimal by b[p..q-1]
RECURSIVE Decimal(_, _, _)
Decimal(b, p, q) == IF q <= p THEN 0 ELSE 10 * Decimal(b, p, q - 1) + (b[q - 1] - 48)

BFail == [ok |-> FALSE, next |-> 0, tag |-> "fail", str |-> <<>>, num |-> 0, items |-> <<>>]

BStr(bytes, nx) ==
    [ok |-> TRUE, next |-> nx, tag |-> "str", str |-> bytes, num |-> 0, items |-> <<>>]

BInt(n, nx) ==
    [ok |-> TRUE, next |-> nx, tag |-> "int", str |-> <<>>, num |-> n, items |-> <<>>]

BColl(tag, items, nx) ==
    [ok |-> TRUE, next |-> nx, tag |-> tag, str |-> <<>>, num |-> 0, items |-> items]

ParseStr(b, p) ==
    LET q == DigitsEnd(b, p)
        n == Decimal(b, p, q)
    IN IF q = p \/ q > Len(b) THEN BFail
       ELSE IF b[q] # 58 \/ q + n > Len(b) THEN BFail
       ELSE BStr(SubSeq(b, q + 1, q + n), q + n + 1)

ParseInt(b, p) ==
    LET neg == p + 1 <= Len(b) /\ b[p + 1] = 45
        d == IF neg THEN p + 2 ELSE p + 1
        q == DigitsEnd(b, d)
    IN IF q = d \/ q > Len(b) THEN BFail
       ELSE IF b[q] # 101 THEN BFail
       ELSE BInt(IF neg THEN 0 - Decimal(b, d, q) ELSE Decimal(b, d, q), q + 1)

RECURSIVE ParseValue(_, _), ParseList(_, _, _), ParseDict(_, _, _)

ParseList(b, p, acc) ==
    IF p > Len(b) THEN BFail
    ELSE IF b[p] = 101 THEN BColl("list", acc, p + 1)
    ELSE LET v == ParseValue(b, p)
         IN IF v.ok THEN ParseList(b, v.next, Append(acc, v)) ELSE BFail

ParseDict(b, p, acc) ==
    IF p > Len(b) THEN BFail
    ELSE IF b[p] = 101 THEN BColl("dict", acc, p + 1)
    ELSE LET k == IF IsDigit(b[p]) THEN ParseStr(b, p) ELSE BFail
         IN IF ~k.ok THEN BFail
            ELSE LET v == ParseValue(b, k.next)
                 IN IF v.ok THEN ParseDict(b, v.next, Append(acc, [key |-> k.str, val |-> v]))
                    ELSE BFail

ParseValue(b, p) ==
    IF p > Len(b) THEN BFail
    ELSE IF IsDigit(b[p]) THEN ParseStr(b, p)
    ELSE IF b[p] = 105 THEN ParseInt(b, p)
    ELSE IF b[p] = 108 THEN ParseList(b, p + 1, <<>>)
    ELSE IF b[p] = 100 THEN ParseDict(b, p + 1, <<>>)
    ELSE BFail

\* the value the whole of b encodes, or BFail
Bdecode(b) ==
    LET r == ParseValue(b, 1)
    IN IF r.ok /\ r.next = Len(b) + 1 THEN r ELSE BFail

\* item i of dictionary d has key k and a byte string as value, namely v
HasStr(d, i, k, v) ==
    /\ d.items[i].key = k
    /\ d.items[i].val.tag = "str"
    /\ d.items[i].val.str = v

\* b decodes to {a: {id: nid}, q: 'ping', t: tx, y: 'q'}
DecodesToPing(b, tx, nid) ==
    LET r == Bdecode(b)
    IN /\ r.ok /\ r.tag = "dict" /\ Len(r.items) = 4
       /\ r.items[1].key = <<97>>
       /\ r.items[1].val.tag = "dict"
       /\ Len(r.items[1].val.items) = 1
       /\ HasStr(r.items[1].val, 1, <<105, 100>>, nid)
       /\ HasStr(r, 2, <<113>>, <<112, 105, 110, 103>>)
       /\ HasStr(r, 3, <<116>>, tx)
       /\ HasStr(r, 4, <<121>>, <<113>>)

\* C10: the output of build_ping is a well-formed bencoded dictionary of four
\* entries a, q, t, y, from which a bencode decoder recovers a = {id: node_id},
\* q = 'ping', t = txid, y = 'q'.
C10_PingIsBencode ==
    ppc = "built" => DecodesToPing(payload, txid, node_id)

----------------------------------------------------------------------------
(* The transaction-id check of line 64 *)

\* C11: for every 20-byte node id and 2-byte transaction id, the presence check
\* of that txid on the output of build_ping for it gives true.
C11_EchoIsRecognised ==
    ppc = "checked" => ret = "True"

C11_Witness ==
    /\ ppc = "checked" /\ ret = "True"
    /\ txid = <<255, 255>> /\ node_id = [i \in 1..NodeIdLen |-> 0]
    /\ payload = build_ping(txid, node_id)

\* the payload the peer sent in the datagram of receive i
Wire(i) == Datagram(recvLog[i].kind, recvLog[i].re)

\* the decision of line 64 for receive i was true: probe returned True on it
DecidedMatch(i) == i = Len(recvLog) /\ ret = "True"

\* C12: the decision probe makes for a received reply is true exactly if txid
\* occurs, as two adjacent bytes, within the first 512 bytes of the payload the
\* peer sent, whatever the payload's length and content.
C12_MatchWithinBuffer ==
    \A i \in 1..Len(recvLog) :
        recvLog[i].res = "data" =>
            (DecidedMatch(i) <=> Contains(txid, Take(Wire(i), 512)))

C12_Witness ==
    /\ Len(recvLog) = 2
    /\ recvLog[1].kind = "late" /\ Len(Wire(1)) = 514 /\ SubSeq(Wire(1), 513, 514) = txid
    /\ ~Contains(txid, recvLog[1].data)
    /\ recvLog[2].kind = "echo" /\ SubSeq(Wire(2), 46, 47) = txid /\ DecidedMatch(2)

\* C12 as claimed: the decision is true exactly if txid occurs anywhere in the
\* payload the peer sent
C12_MatchAnywhere ==
    \A i \in 1..Len(recvLog) :
        recvLog[i].res = "data" => (DecidedMatch(i) <=> Contains(txid, Wire(i)))

----------------------------------------------------------------------------
(* The probe loop of main, lines 100-108 *)

StatusLines(o) == SelectSeq(o, LAMBDA l : l.line = "status")

TargetsOf(ls) == [k \in 1..Len(ls) |-> ls[k].target]

\* C13: probing is sequential. A socket is open only inside the one probe in
\* progress, which has opened no other; no socket is open between probes; and
\* while the probe of target number tIdx runs (so when it first sends), the probes
\* of all targets before it have been called, have returned and have been reported.
C13_OneProbeAtATime ==
    /\ sockOpen => /\ pc = "probing"
                   /\ ppc \in {"settimeout", "for", "send", "recv"}
                   /\ opened = 1 /\ closed = 0
    /\ opened <= 1
    /\ ppc \in {"idle", "socket"} => sockOpen = FALSE
    /\ ppc # "idle" =>
          /\ Len(probed) = tIdx
          /\ probed[tIdx].target = unique_addrs[tIdx]
          /\ \A k \in 1..(tIdx - 1) : probed[k].ret \in {"True", "False"}
          /\ TargetsOf(StatusLines(out)) = SubSeq(unique_addrs, 1, tIdx - 1)
    /\ ppc \in {"send", "recv"} => sockOpen

C13_Witness ==
    /\ pc = "probing" /\ tIdx = 2 /\ ppc = "send" /\ sent = 0 /\ sockOpen
    /\ probed[1].ret = "False" /\ probed[2].ret = "pending"
    /\ Len(StatusLines(out)) = 1

\* C14: when the run is over every target of the deduplicated sequence has been
\* probed exactly once and has exactly one status line, in sequence order,
\* whatever happened to the targets before it.
C14_EveryTargetReported ==
    pc \in {"done", "crashed"} =>
        /\ TargetsOf(probed) = unique_addrs
        /\ TargetsOf(StatusLines(out)) = unique_addrs

----------------------------------------------------------------------------
(* The summary, lines 110-115 *)

\* the targets whose probe returned True, in the order they were probed
RECURSIVE ReturnedTrue(_)
ReturnedTrue(ps) ==
    IF ps = <<>> THEN <<>>
    ELSE (IF Head(ps).ret = "True" THEN <<Head(ps).target>> ELSE <<>>) \o ReturnedTrue(Tail(ps))

\* the lines printed after the header of the summary
AfterHeader(o) ==
    LET h == CHOOSE i \in 1..Len(o) : o[i].line = "header"
    IN SubSeq(o, h + 1, Len(o))

\* C15: when the run has finished, what follows the header "Responsive nodes:"
\* is one line for each target whose probe returned True, once each and in probe
\* order, and then the line (none) exactly if no probe returned True.
C15_SummaryListsResponders ==
    pc = "done" =>
        LET yes == ReturnedTrue(probed)
            tail == AfterHeader(out)
            nodes == SelectSeq(tail, LAMBDA l : l.line = "node")
        IN /\ Cardinality({i \in 1..Len(out) : out[i].line = "header"}) = 1
           /\ TargetsOf(nodes) = yes
           /\ NoDuplicates(yes)
           /\ tail = nodes \o SelectSeq(tail, LAMBDA l : l.line = "none")
           /\ Cardinality({i \in 1..Len(tail) : tail[i].line = "none"})
                 = (IF yes = <<>> THEN 1 ELSE 0)

C15_Witness ==
    /\ pc = "done" /\ Len(probed) = 3
    /\ probed[1].ret = "True" /\ probed[2].ret = "False" /\ probed[3].ret = "True"
    /\ TargetsOf(AfterHeader(out)) = <<probed[1].target, probed[3].target>>

----------------------------------------------------------------------------
(* Termination *)

\* the run goes on as long as it has a step to take: every blocking call of the
\* program returns (recvfrom after its timeout at the latest)
SpecLive == Init /\ [][Next]_vars /\ WF_vars(Next)

\* C16: the run, once started, eventually reaches the final summary, whatever
\* the replies, losses and errors.
C16_ReachesSummary ==
    <>(pc = "done")

\* C16, as what a finite run shows: a run that has no further step to take has
\* printed the final summary.
C16_StopsOnlyAfterSummary ==
    (~ENABLED Next) => pc = "done"

----------------------------------------------------------------------------
(* The run with a configured list of literals that may be empty *)

InitConfig ==
    /\ pc = "resolve" /\ hostIdx = 1 /\ dnsLog = <<>>
    /\ addrs = <<>> /\ unique_addrs = <<>> /\ tIdx = 0
    /\ responsive = <<>> /\ out = <<>>
    /\ static_ips \in {<<>>, STATIC_IPS}
    /\ probed = <<>> /\ lastProbe = NoProbe
    /\ ProbeIdle

SpecConfig == InitConfig /\ [][Next]_vars

AllResolutionsFailed ==
    /\ pc \notin {"resolve", "dedup"}
    /\ \A i \in 1..Len(dnsLog) : dnsLog[i].ok = FALSE

\* C17: when every resolution failed the probe sequence is the list of static
\* literals and only these are probed; and when the target list is empty no probe
\* is called, no socket opened and no datagram sent, the run is not ended by an
\* error, its next step is the summary, and the summary is the header followed by
\* the line (none).
C17_NothingToProbeIsNoError ==
    /\ AllResolutionsFailed =>
          /\ unique_addrs = static_ips
          /\ \A k \in 1..Len(probed) : probed[k].target = static_ips[k]
    /\ (pc \notin {"resolve", "dedup"} /\ unique_addrs = <<>>) =>
          /\ probed = <<>> /\ ppc = "idle"
          /\ opened = 0 /\ sendCalls = 0 /\ sent = 0
          /\ pc # "crashed"
          /\ pc = "probing" => ENABLED Report
          /\ pc = "done" => TargetsOf(StatusLines(out)) = <<>>
                            /\ Len(AfterHeader(out)) = 1
                            /\ AfterHeader(out)[1].line = "none"

C17_Witness ==
    /\ pc = "done" /\ AllResolutionsFailed /\ Len(dnsLog) = Len(BOOTSTRAP_HOSTS)
    /\ static_ips = <<>> /\ unique_addrs = <<>> /\ probed = <<>>
    /\ Len(out) = 3 /\ out[1].line = "banner" /\ out[2].line = "header"
    /\ out[3].line = "none"

----------------------------------------------------------------------------
(* Whose datagram, and which, makes a probe succeed *)

\* the probe that has just returned put its target on the list of responsive nodes
JustListed ==
    /\ lastProbe.ret # "none"
    /\ responsive # <<>>
    /\ responsive[Len(responsive)] = lastProbe.target

\* C18: a target is put on the list of responsive nodes only if its probe received
\* a datagram containing the probe's transaction id, from whatever sender.
C18_ListedOnlyOnMatch ==
    JustListed => (lastProbe.ret = "True" /\ lastProbe.match /\ lastProbe.senders # {})

C18_Witness ==
    /\ JustListed /\ lastProbe.match
    /\ lastProbe.senders = {"other"}
    /\ out[Len(out)].status = "OK" /\ out[Len(out)].target = lastProbe.target

\* C18 as claimed: a target is put on the list only if its probe received a
\* datagram that the target itself sent
C18_ListedOnlyIfTargetAnswered ==
    JustListed => "target" \in lastProbe.senders

\* C19: within one probe every datagram sent is the same request, the one built
\* from the probe's one node id and one transaction id, and all go out on the one
\* socket the probe opened; and when the first receive timed out and the second
\* returns an answer (an echo or a pong) to the first datagram, the probe returns
\* True.
C19_SameRequestLateReplyAccepted ==
    /\ \A i \in 1..Len(sentLog) :
          /\ sentLog[i].txid = txid
          /\ sentLog[i].payload = build_ping(txid, node_id)
          /\ sentLog[i] = sentLog[1]
    /\ Len(sentLog) = sent
    /\ sent >= 1 => opened = 1
    /\ (/\ Len(recvLog) = 2
        /\ recvLog[1].res = "timeout"
        /\ recvLog[2].res = "data" /\ recvLog[2].re = 1
        /\ recvLog[2].kind \in {"echo", "pong"})
          => (ppc = "returned" /\ ret = "True")

C19_Witness ==
    /\ ppc = "returned" /\ ret = "True" /\ sent = 2 /\ Len(recvLog) = 2
    /\ recvLog[1].res = "timeout"
    /\ recvLog[2].res = "data" /\ recvLog[2].re = 1 /\ recvLog[2].kind = "pong"
    /\ recvLog[2].from = "target"

\* the last receive gave a datagram in which txid does not occur
LastDidNotMatch ==
    /\ recvLog # <<>>
    /\ recvLog[Len(recvLog)].res = "data"
    /\ ~Matched(Len(recvLog))

\* C20: a datagram without the transaction id uses up its attempt as a timeout
\* does. There is one receive per datagram sent, so the probe does not listen on
\* in that attempt; if an attempt is left the loop goes on to send again; and a
\* probe whose last receive gave such a datagram has used all RETRIES attempts
\* and returns False.
C20_MismatchUsesUpAttempt ==
    /\ Len(recvLog) <= attempt
    /\ ppc = "recv" => Len(recvLog) = sent - 1
    /\ (LastDidNotMatch /\ attempt < RETRIES) => (ppc = "for" /\ ENABLED ForNext)
    /\ (LastDidNotMatch /\ ppc = "returned") =>
          (ret = "False" /\ attempt = RETRIES /\ sendCalls = RETRIES /\ sockOpen = FALSE)

C20_Witness ==
    /\ ppc = "returned" /\ ret = "False" /\ sent = 2 /\ Len(recvLog) = 2
    /\ recvLog[1].res = "data" /\ recvLog[1].kind = "stale" /\ ~Matched(1)
    /\ recvLog[2].res = "data" /\ recvLog[2].kind = "late" /\ ~Matched(2)

====
